---- MODULE Spec2Model ----
(***************************************************************************)
(* Model of the self-check harness shared by the QHack 2024 exercises:     *)
(*   returning_expectation_values.py      ("expval")                       *)
(*   returning_tensor_product_observables.py ("tensor")                    *)
(*   a_simple_trotterization.py           ("trotter")                      *)
(*   the_parameter_shift_rule.py          ("pshift")                       *)
(*   save_qhack_beach.py                  ("beach", run/check only)        *)
(*                                                                         *)
(* Numbers.  A Python float is a record [k, v]: k = "fin" with v the value *)
(* in units of 1e-5, or k in {"nan", "inf", "ninf"} (v = 0).               *)
(* Arrays.   A decoded value is [shape, data]: shape is <<>> (scalar),     *)
(* <<n>> or <<m, n>>, data the elements in row-major order.                *)
(* Strings.  The text of a literal is [shape, toks]; a token is [lit, v]   *)
(* with lit = "num" (a decimal literal of value v), "nan" / "inf" / "-inf" *)
(* (what Python's str prints for a non-finite float), "NaN" / "Infinity" / *)
(* "-Infinity" (the non-finite literals json.loads accepts) or "bad"       *)
(* (anything that is no JSON value).                                       *)
(***************************************************************************)
EXTENDS Integers, Sequences, FiniteSets, TLC

VARIABLES
    exercise,         \* which script is running
    test_cases,       \* the script's list of (input, expected_output)
    i,                \* loop index of the for statement (0-based)
    pc,               \* position of the script
    output,           \* the loop's variable output (last value run returned)
    stdout,           \* the lines printed so far
    queue,            \* operations issued by the trotterize call in progress
    trot_i,           \* trotterize's loop index i
    qtape,            \* trotterize.qtape: operations of the last completed call
    runResult,        \* per case: how run ended, what it returned or raised
    checkResult,      \* per case: how check ended
    solution_output,  \* check's first parameter at its last call
    expected_output,  \* check's second parameter at its last call
    check_result      \* outcome of the last call of check

vars == <<exercise, test_cases, i, pc, output, stdout, queue, trot_i, qtape,
          runResult, checkResult, solution_output, expected_output,
          check_result>>

(***************************************************************************)
(* Bounds of the model.                                                    *)
(***************************************************************************)
NumCases == 3
MaxDepth == 2

(***************************************************************************)
(* Floats, arrays and texts.                                               *)
(***************************************************************************)
Fin(n) == [k |-> "fin", v |-> n]
NaN == [k |-> "nan", v |-> 0]
PosInf == [k |-> "inf", v |-> 0]
NegInf == [k |-> "ninf", v |-> 0]

Scalar(x) == [shape |-> <<>>, data |-> <<x>>]
Vec(xs) == [shape |-> <<Len(xs)>>, data |-> xs]
Grid(m, n, xs) == [shape |-> <<m, n>>, data |-> xs]

Num(n) == [lit |-> "num", v |-> n]
Word(w) == [lit |-> w, v |-> 0]

Abs(n) == IF n < 0 THEN -n ELSE n

\* str(x) of one float: repr of a finite float is a decimal literal that
\* reads back as the same float; non-finite floats print as nan, inf, -inf.
str_float(x) ==
    CASE x.k = "fin" -> Num(x.v)
      [] x.k = "nan" -> Word("nan")
      [] x.k = "inf" -> Word("inf")
      [] x.k = "ninf" -> Word("-inf")

\* str(output): brackets and order follow the value's nesting.
str(val) ==
    [shape |-> val.shape,
     toks |-> [n \in DOMAIN val.data |-> str_float(val.data[n])]]

\* json.loads accepts decimal literals and NaN, Infinity, -Infinity.
json_token_ok(tok) == tok.lit \in {"num", "NaN", "Infinity", "-Infinity"}

json_valid(text) == \A n \in DOMAIN text.toks : json_token_ok(text.toks[n])

json_float(tok) ==
    CASE tok.lit = "num" -> Fin(tok.v)
      [] tok.lit = "NaN" -> NaN
      [] tok.lit = "Infinity" -> PosInf
      [] tok.lit = "-Infinity" -> NegInf

\* json.loads(text) for a text with json_valid(text).
json_loads(text) ==
    [shape |-> text.shape,
     data |-> [n \in DOMAIN text.toks |-> json_float(text.toks[n])]]

\* ndarray.round(3): to the nearest multiple of 1e-3 (100 units), halves to
\* the even multiple; non-finite values are unchanged.
round3_int(n) ==
    LET q == n \div 100
        r == n % 100
    IN  IF r < 50 THEN 100 * q
        ELSE IF r > 50 THEN 100 * (q + 1)
        ELSE IF q % 2 = 0 THEN 100 * q ELSE 100 * (q + 1)

round3(val) ==
    [shape |-> val.shape,
     data |-> [n \in DOMAIN val.data |->
                 IF val.data[n].k = "fin"
                 THEN Fin(round3_int(val.data[n].v))
                 ELSE val.data[n]]]

(***************************************************************************)
(* numpy.allclose(a, b, rtol, atol).  rtol is 1 / rtolInv; atol is         *)
(* atolUnits + atolMilli / 1000 units of 1e-5.                             *)
(***************************************************************************)
\* numpy's broadcasting: shapes are aligned on the right and padded with 1.
pad2(shape) ==
    CASE Len(shape) = 0 -> <<1, 1>>
      [] Len(shape) = 1 -> <<1, shape[1]>>
      [] Len(shape) = 2 -> shape

dim_ok(da, db) == da = db \/ da = 1 \/ db = 1

broadcastable(sa, sb) ==
    /\ dim_ok(pad2(sa)[1], pad2(sb)[1])
    /\ dim_ok(pad2(sa)[2], pad2(sb)[2])

bdim(da, db) == IF da = 1 THEN db ELSE da

\* element (r, c) of the broadcast view of an array
at(val, r, c) ==
    LET s == pad2(val.shape)
        rr == IF s[1] = 1 THEN 1 ELSE r
        cc == IF s[2] = 1 THEN 1 ELSE c
    IN  val.data[(rr - 1) * s[2] + cc]

\* A plausible slip: a strict, purely relative test (atol forgotten).
isclose_relative(a, b, tol) ==
    IF a.k = "fin" /\ b.k = "fin"
    THEN Abs(a.v - b.v) < Abs(b.v) \div tol.rtolInv
    ELSE a.k = b.k /\ a.k # "nan"

\* numpy.isclose of two floats: |a - b| <= atol + rtol * |b| for finite
\* values, equality for infinities, never for nan (equal_nan = False).
isclose(a, b, tol) ==
    IF a.k = "fin" /\ b.k = "fin"
    THEN Abs(a.v - b.v) - tol.atolUnits
           <= (tol.atolMilli * tol.rtolInv + 1000 * Abs(b.v))
                \div (1000 * tol.rtolInv)
    ELSE a.k = b.k /\ a.k # "nan"

allclose(a, b, tol) ==
    LET sa == pad2(a.shape)
        sb == pad2(b.shape)
    IN  \A r \in 1..bdim(sa[1], sb[1]) : \A c \in 1..bdim(sa[2], sb[2]) :
            isclose(at(a, r, c), at(b, r, c), tol)

(***************************************************************************)
(* The check functions.  A call of check ends in a record                  *)
(*   exc    "none" (it returned) or the name of the exception it raised    *)
(*   msg    for an AssertionError, which assertion failed                  *)
(*   ret    the value returned ("None": every check ends without return)   *)
(*   policy whether the policy assertions on the tape were evaluated       *)
(***************************************************************************)
tol_expval == [rtolInv |-> 10000, atolUnits |-> 0, atolMilli |-> 1]
tol_tensor == [rtolInv |-> 10000, atolUnits |-> 0, atolMilli |-> 1]
tol_trotter == [rtolInv |-> 10000, atolUnits |-> 0, atolMilli |-> 1]
tol_pshift == [rtolInv |-> 100000, atolUnits |-> 1000, atolMilli |-> 0]
tol_beach == [rtolInv |-> 1000, atolUnits |-> 0, atolMilli |-> 1]

Ended(exc, msg, policy) ==
    [exc |-> exc, msg |-> msg, ret |-> "None", policy |-> policy]

NotCalled == [exc |-> "notcalled", msg |-> "", ret |-> "None", policy |-> FALSE]

\* A plausible slip: the check reports a mismatch by returning a message,
\* as the loop's "if message := check(...)" expects, instead of asserting.
check_numeric_returning(solution, expected, tol) ==
    IF ~json_valid(solution) \/ ~json_valid(expected)
    THEN Ended("JSONDecodeError", "", FALSE)
    ELSE LET a == json_loads(solution)
             b == json_loads(expected)
         IN  IF ~broadcastable(a.shape, b.shape)
             THEN Ended("ValueError", "", FALSE)
             ELSE IF ~allclose(a, b, tol)
             THEN [exc |-> "none", msg |-> "", ret |-> "mismatch",
                   policy |-> FALSE]
             ELSE Ended("none", "", FALSE)

\* The lines every check shares: decode both strings, assert np.allclose.
check_numeric(solution, expected, tol) ==
    IF ~json_valid(solution)
    THEN Ended("JSONDecodeError", "", FALSE)
    ELSE IF ~json_valid(expected)
    THEN Ended("JSONDecodeError", "", FALSE)
    ELSE LET a == json_loads(solution)
             b == json_loads(expected)
         IN  IF ~broadcastable(a.shape, b.shape)
             THEN Ended("ValueError", "", FALSE)
             ELSE IF ~allclose(a, b, tol)
             THEN Ended("AssertionError", "numeric", FALSE)
             ELSE Ended("none", "", FALSE)

check_expval(solution, expected) == check_numeric(solution, expected, tol_expval)

check_tensor(solution, expected) == check_numeric(solution, expected, tol_tensor)

check_pshift(solution, expected) == check_numeric(solution, expected, tol_pshift)

check_beach(solution, expected) == check_numeric(solution, expected, tol_beach)

\* names.count(name) over names = [op.name for op in tape.operations]
count(tape, name) == Cardinality({n \in DOMAIN tape : tape[n].name = name})

Forbidden == {"ApproxTimeEvolution", "Evolve", "QubitUnitary"}

has_forbidden(tape) == \E n \in DOMAIN tape : tape[n].name \in Forbidden

check_trotter(solution, expected, tape) ==
    LET r == check_numeric(solution, expected, tol_trotter)
    IN  IF r.exc # "none" THEN r
        ELSE IF count(tape, "ApproxTimeEvolution") # 0
        THEN Ended("AssertionError", "policy", TRUE)
        ELSE IF count(tape, "Evolve") # 0
        THEN Ended("AssertionError", "policy", TRUE)
        ELSE IF count(tape, "QubitUnitary") # 0
        THEN Ended("AssertionError", "policy", TRUE)
        ELSE [r EXCEPT !.policy = TRUE]

\* the check of the running script
check(ex, solution, expected, tape) ==
    CASE ex = "expval" -> check_expval(solution, expected)
      [] ex = "tensor" -> check_tensor(solution, expected)
      [] ex = "trotter" -> check_trotter(solution, expected, tape)
      [] ex = "pshift" -> check_pshift(solution, expected)
      [] ex = "beach" -> check_beach(solution, expected)

\* Python's truth value of check's return value
truthy(ret) == ret # "None"

\* run's encoding of the Evaluator's result
run_encode(ex, val) == IF ex = "pshift" THEN str(round3(val)) ELSE str(val)

(***************************************************************************)
(* Test vectors.  The Evaluators' numeric results come from the external   *)
(* simulator; the model draws them from the sets below (units of 1e-5).    *)
(***************************************************************************)
HarnessExercises == {"expval", "tensor", "trotter", "pshift"}
AllExercises == HarnessExercises \cup {"beach"}

FinVec(ns) == Vec([n \in DOMAIN ns |-> Fin(ns[n])])
FinGrid(m, n, ns) == Grid(m, n, [j \in DOMAIN ns |-> Fin(ns[j])])
NaNs(val) == [shape |-> val.shape, data |-> [n \in DOMAIN val.data |-> NaN]]

\* a reference result of each exercise
Ref(ex) ==
    CASE ex = "expval" -> Scalar(Fin(94400))
      [] ex = "tensor" -> Scalar(Fin(32994))
      [] ex = "trotter" -> FinVec(<<99003, 0, 0, 997>>)
      [] ex = "pshift" -> FinGrid(2, 3, <<0, 0, 0, 0, -540, 0>>)
      [] ex = "beach" -> FinVec(<<-1592250, -1542100, -1597210>>)

\* a result that differs from Ref by less than the exercise's tolerance
Near(ex) ==
    CASE ex = "expval" -> Scalar(Fin(94409))
      [] ex = "tensor" -> Scalar(Fin(32997))
      [] ex = "trotter" -> FinVec(<<99012, 0, 0, 997>>)
      [] ex = "pshift" -> FinGrid(2, 3, <<0, 900, 0, 0, 350, 0>>)
      [] ex = "beach" -> FinVec(<<-1593800, -1542100, -1597210>>)

\* a result beyond the tolerance
Far(ex) ==
    CASE ex = "expval" -> Scalar(Fin(94410))
      [] ex = "tensor" -> Scalar(Fin(-29402))
      [] ex = "trotter" -> FinVec(<<87590, 0, 0, 12410>>)
      [] ex = "pshift" -> FinGrid(2, 3, <<0, 0, 0, 0, 640, 0>>)
      [] ex = "beach" -> FinVec(<<-1594000, -1542100, -1597210>>)

\* a value of another shape that numpy broadcasts against Ref
Reshaped(ex) ==
    CASE ex = "expval" -> FinVec(<<94400, 94400>>)
      [] ex = "tensor" -> FinVec(<<32994>>)
      [] ex = "trotter" -> FinGrid(1, 4, <<99003, 0, 0, 997>>)
      [] ex = "pshift" -> FinVec(<<0>>)
      [] ex = "beach" -> FinGrid(1, 3, <<-1592250, -1542100, -1597210>>)

\* a value of yet another shape: another nesting for the scalar exercises,
\* a length numpy cannot broadcast against Ref for the others
Misshaped(ex) ==
    CASE ex = "expval" -> FinGrid(1, 1, <<94400>>)
      [] ex = "tensor" -> FinGrid(1, 2, <<32994, 32994>>)
      [] ex = "trotter" -> FinVec(<<99003, 997>>)
      [] ex = "pshift" -> FinVec(<<0, -500>>)
      [] ex = "beach" -> FinVec(<<-1592250, -1597210>>)

Malformed == [shape |-> <<>>, toks |-> <<Word("bad")>>]
NoText == [shape |-> <<>>, toks |-> <<>>]

\* what the Evaluator of an exercise can compute
EvalOutputs(ex) == {Ref(ex), Far(ex), NaNs(Ref(ex))}

\* the expected_output literals an author can write
ExpectedOutputs(ex) == {run_encode(ex, Ref(ex)), str(Reshaped(ex)), Malformed}

\* inputs: a malformed literal, a literal the Evaluator faults on, a valid
\* one; the Trotterization input carries its depth
Input(kind, depth) == [kind |-> kind, depth |-> depth]

Inputs(ex) ==
    IF ex = "trotter"
    THEN {Input("malformed", 0)} \cup {Input("valid", d) : d \in 0..MaxDepth}
    ELSE {Input("malformed", 0), Input("faulty", 0), Input("valid", 0)}

TestCases(ex) ==
    {[input |-> inp, expected |-> e] : inp \in Inputs(ex),
                                       e \in ExpectedOutputs(ex)}

Cases == 0..(NumCases - 1)

\* test_cases[i] of the 0-based Python list
case(j) == test_cases[j + 1]

Pending == [st |-> "pending", exc |-> "none", out |-> NoText, ops |-> <<>>]

(***************************************************************************)
(* The script: the test-case loop and the functions it calls.              *)
(*   pc = "loop"      at the head of the for statement                     *)
(*        "run"       inside try, about to call run(input_)                *)
(*        "trot_xx", "trot_zz", "trot_probs"  inside trotterize            *)
(*        "check"     in the else clause, about to call check              *)
(*        "done"      the loop is exhausted                                *)
(*        "crashed"   an exception left the script (traceback, exit)       *)
(***************************************************************************)
Line(kind, j, have, want, msg) ==
    [kind |-> kind, case |-> j, have |-> have, want |-> want, msg |-> msg]

Init ==
    /\ exercise \in HarnessExercises
    /\ test_cases \in [1..NumCases -> TestCases(exercise)]
    /\ i = 0
    /\ pc = "loop"
    /\ output = NoText
    /\ stdout = <<>>
    /\ queue = <<>>
    /\ trot_i = 0
    /\ qtape = <<>>
    /\ runResult = [j \in Cases |-> Pending]
    /\ checkResult = [j \in Cases |-> NotCalled]
    /\ solution_output = NoText
    /\ expected_output = NoText
    /\ check_result = NotCalled

\* for i, (input_, expected_output) in enumerate(test_cases): print(...)
StartCase ==
    /\ pc = "loop"
    /\ i < NumCases
    /\ stdout' = Append(stdout, Line("Running", i, NoText, NoText, ""))
    /\ pc' = "run"
    /\ UNCHANGED <<exercise, test_cases, i, output, queue, trot_i, qtape,
                   runResult, checkResult, solution_output, expected_output,
                   check_result>>

\* the for statement finds test_cases exhausted
Finish ==
    /\ pc = "loop"
    /\ i = NumCases
    /\ pc' = "done"
    /\ UNCHANGED <<exercise, test_cases, i, output, stdout, queue, trot_i,
                   qtape, runResult, checkResult, solution_output,
                   expected_output, check_result>>

\* except Exception as exc: print(f"Runtime Error. {exc}"), next iteration
except_clause(exc) ==
    /\ stdout' = Append(stdout, Line("RuntimeError", i, NoText, NoText, exc))
    /\ i' = i + 1
    /\ pc' = "loop"

Raised(exc) == [st |-> "raised", exc |-> exc, out |-> NoText, ops |-> <<>>]
Returned(out, ops) == [st |-> "returned", exc |-> "none", out |-> out, ops |-> ops]

\* run raises: json.loads rejects the input, or the Evaluator faults
RunRaises ==
    /\ pc = "run"
    /\ case(i).input.kind \in {"malformed", "faulty"}
    /\ LET exc == IF case(i).input.kind = "malformed"
                  THEN "JSONDecodeError" ELSE "EvaluatorFault"
       IN  /\ runResult' = [runResult EXCEPT ![i] = Raised(exc)]
           /\ except_clause(exc)
    /\ UNCHANGED <<exercise, test_cases, output, queue, trot_i, qtape,
                   checkResult, solution_output, expected_output,
                   check_result>>

\* run returns str(output) (expval, tensor, pshift)
RunReturns ==
    /\ pc = "run"
    /\ exercise # "trotter"
    /\ case(i).input.kind = "valid"
    /\ \E val \in EvalOutputs(exercise) :
          /\ output' = run_encode(exercise, val)
          /\ runResult' = [runResult EXCEPT
                             ![i] = Returned(run_encode(exercise, val), <<>>)]
    /\ pc' = "check"
    /\ UNCHANGED <<exercise, test_cases, i, stdout, queue, trot_i, qtape,
                   checkResult, solution_output, expected_output,
                   check_result>>

Op(name) == [name |-> name, wires |-> <<0, 1>>]

\* trotterize is entered with a fresh recording; the two divisions by depth
\* raise ZeroDivisionError when depth = 0; range(depth) is empty when
\* depth < 1
TrotterizeEnter ==
    /\ pc = "run"
    /\ exercise = "trotter"
    /\ case(i).input.kind = "valid"
    /\ queue' = <<>>
    /\ trot_i' = 0
    /\ IF case(i).input.depth = 0
       THEN /\ runResult' = [runResult EXCEPT
                               ![i] = Raised("ZeroDivisionError")]
            /\ except_clause("ZeroDivisionError")
       ELSE /\ pc' = "trot_xx"
            /\ UNCHANGED <<i, stdout, runResult>>
    /\ UNCHANGED <<exercise, test_cases, output, qtape, checkResult,
                   solution_output, expected_output, check_result>>

\* A plausible slip: the built-in Trotterization instead of the gate.
IsingXX_builtin ==
    /\ pc = "trot_xx"
    /\ queue' = Append(queue, Op("ApproxTimeEvolution"))
    /\ pc' = "trot_zz"
    /\ UNCHANGED <<exercise, test_cases, i, output, stdout, trot_i, qtape,
                   runResult, checkResult, solution_output, expected_output,
                   check_result>>

\* qml.IsingXX(2 * evolution_time_xx, [0, 1])
IsingXX ==
    /\ pc = "trot_xx"
    /\ queue' = Append(queue, Op("IsingXX"))
    /\ pc' = "trot_zz"
    /\ UNCHANGED <<exercise, test_cases, i, output, stdout, trot_i, qtape,
                   runResult, checkResult, solution_output, expected_output,
                   check_result>>

\* qml.IsingZZ(2 * evolution_time_zz, [0, 1]); next i of range(depth)
IsingZZ ==
    /\ pc = "trot_zz"
    /\ queue' = Append(queue, Op("IsingZZ"))
    /\ trot_i' = trot_i + 1
    /\ pc' = IF trot_i + 1 < case(i).input.depth THEN "trot_xx"
             ELSE "trot_probs"
    /\ UNCHANGED <<exercise, test_cases, i, output, stdout, qtape,
                   runResult, checkResult, solution_output, expected_output,
                   check_result>>

\* return qml.probs(): the recording becomes trotterize.qtape and run
\* returns str(list(probabilities))
TrotterizeReturn ==
    /\ pc = "trot_probs"
    /\ qtape' = queue
    /\ \E val \in EvalOutputs("trotter") :
          /\ output' = run_encode("trotter", val)
          /\ runResult' = [runResult EXCEPT
                             ![i] = Returned(run_encode("trotter", val), queue)]
    /\ pc' = "check"
    /\ UNCHANGED <<exercise, test_cases, i, stdout, queue, trot_i,
                   checkResult, solution_output, expected_output,
                   check_result>>

\* else: if message := check(output, expected_output): print Wrong Answer
\* else: print Correct!  An exception of check is caught by nothing.
CheckCase ==
    /\ pc = "check"
    /\ LET r == check(exercise, output, case(i).expected, qtape)
       IN  /\ solution_output' = output
           /\ expected_output' = case(i).expected
           /\ check_result' = r
           /\ checkResult' = [checkResult EXCEPT ![i] = r]
           /\ IF r.exc # "none"
              THEN /\ pc' = "crashed"
                   /\ UNCHANGED <<i, stdout>>
              ELSE /\ stdout' = Append(stdout,
                         IF truthy(r.ret)
                         THEN Line("WrongAnswer", i, output,
                                   case(i).expected, "")
                         ELSE Line("Correct", i, NoText, NoText, ""))
                   /\ i' = i + 1
                   /\ pc' = "loop"
    /\ UNCHANGED <<exercise, test_cases, output, queue, trot_i, qtape,
                   runResult>>

Next ==
    \/ StartCase
    \/ RunRaises
    \/ RunReturns
    \/ TrotterizeEnter
    \/ IsingXX
    \/ IsingZZ
    \/ TrotterizeReturn
    \/ CheckCase
    \/ Finish

Spec == Init /\ [][Next]_vars

(***************************************************************************)
(* check on its own: the arguments are drawn from the strings run can      *)
(* return and the literals an author can write, for all five scripts.      *)
(***************************************************************************)
Infs(val) == [shape |-> val.shape, data |-> [n \in DOMAIN val.data |-> PosInf]]

CheckValues(ex) == {Ref(ex), Near(ex), Far(ex), NaNs(Ref(ex)), Infs(Ref(ex))}

RunOutputs(ex) == {run_encode(ex, val) : val \in CheckValues(ex)}

JsonNaN == [shape |-> <<>>, toks |-> <<Word("NaN")>>]

CheckExpected(ex) ==
    ExpectedOutputs(ex) \cup RunOutputs(ex) \cup {str(Misshaped(ex)), JsonNaN}

\* the operations trotterize(alpha, beta, time, depth) records
RECURSIVE trotterize_ops(_)
trotterize_ops(depth) ==
    IF depth <= 0 THEN <<>>
    ELSE trotterize_ops(depth - 1) \o <<Op("IsingXX"), Op("IsingZZ")>>

CheckInit ==
    /\ exercise \in AllExercises
    /\ solution_output \in RunOutputs(exercise)
    /\ expected_output \in CheckExpected(exercise)
    /\ qtape \in IF exercise = "trotter"
                 THEN {trotterize_ops(d) : d \in 1..MaxDepth}
                 ELSE {<<>>}
    /\ pc = "check_call"
    /\ check_result = NotCalled
    /\ test_cases = <<>>
    /\ i = 0
    /\ output = NoText
    /\ stdout = <<>>
    /\ queue = <<>>
    /\ trot_i = 0
    /\ runResult = <<>>
    /\ checkResult = <<>>

CheckCall ==
    /\ pc = "check_call"
    /\ check_result' = check(exercise, solution_output, expected_output, qtape)
    /\ pc' = "check_exit"
    /\ UNCHANGED <<exercise, test_cases, i, output, stdout, queue, trot_i,
                   qtape, runResult, checkResult, solution_output,
                   expected_output>>

CheckNext == CheckCall

CheckSpec == CheckInit /\ [][CheckNext]_vars

(***************************************************************************)
(* Vocabulary of the properties.                                           *)
(***************************************************************************)
OutcomeKinds == {"Correct", "WrongAnswer", "RuntimeError"}

OutcomeLines(j) ==
    {n \in DOMAIN stdout : stdout[n].case = j /\ stdout[n].kind \in OutcomeKinds}

Started(j) ==
    \E n \in DOMAIN stdout : stdout[n].case = j /\ stdout[n].kind = "Running"

Terminated == pc \in {"done", "crashed"}

\* case j was started and the script has left it
CaseEnded(j) == Started(j) /\ (i > j \/ Terminated)

RunRaised(j) == runResult[j].st = "raised"

CheckRaised(j) == checkResult[j].exc \notin {"notcalled", "none"}

ComparisonFailed(j) ==
    \/ checkResult[j].exc = "ValueError"
    \/ checkResult[j].exc = "AssertionError" /\ checkResult[j].msg = "numeric"

DecodeFault(j) ==
    \/ runResult[j].exc = "JSONDecodeError"
    \/ checkResult[j].exc = "JSONDecodeError"

WrongAnswerPrinted(j) ==
    \E n \in DOMAIN stdout :
        stdout[n] = Line("WrongAnswer", j, runResult[j].out,
                         case(j).expected, "")

AllNum(text) == \A n \in DOMAIN text.toks : text.toks[n].lit = "num"

(***************************************************************************)
(* Properties.                                                             *)
(***************************************************************************)

\* C1: every test case that has ended printed exactly one outcome line
\* (Correct, Wrong Answer or Runtime Error).
C1_ExactlyOneOutcomePerCase ==
    \A j \in Cases : CaseEnded(j) => Cardinality(OutcomeLines(j)) = 1

\* C2: a fault in case j (run raised, or check raised for a mismatch, a
\* policy violation or a decode failure) never leaves a later case unstarted
\* when the script ends.
C2_FaultNeverBlocksLaterCases ==
    \A j \in Cases : \A m \in Cases :
        (j < m /\ (RunRaised(j) \/ CheckRaised(j)) /\ Terminated)
            => Started(m)

\* C3: when check finds the produced and the expected output to differ
\* (tolerance or shape), the Wrong Answer line with run's string and the
\* test case's expected_output is printed for that case.
C3_MismatchPrintsWrongAnswer ==
    \A j \in Cases : ComparisonFailed(j) => WrongAnswerPrinted(j)

\* C4: when run raises for case j, the Runtime Error line with the
\* exception's message is the one outcome line of the case, check is not
\* called for it, and every later case is started and run: the script does
\* not end without them.
C4_RunErrorThenAllLaterCasesRun ==
    \A j \in Cases :
        RunRaised(j) =>
            /\ \E n \in DOMAIN stdout :
                  /\ OutcomeLines(j) = {n}
                  /\ stdout[n] = Line("RuntimeError", j, NoText, NoText,
                                      runResult[j].exc)
            /\ checkResult[j] = NotCalled
            /\ \A m \in Cases :
                  (m > j /\ Terminated) =>
                      Started(m) /\ runResult[m].st # "pending"

\* The except clause by itself: a run error is reported on the one outcome
\* line of its case, check is not called for the case, and the loop is at
\* the next case; later cases stay unstarted at the end only when a check in
\* between raised.
ExceptClauseHandlesRunError ==
    \A j \in Cases :
        RunRaised(j) =>
            /\ \E n \in DOMAIN stdout :
                  /\ OutcomeLines(j) = {n}
                  /\ stdout[n] = Line("RuntimeError", j, NoText, NoText,
                                      runResult[j].exc)
            /\ checkResult[j] = NotCalled
            /\ i > j
            /\ (j + 1 < NumCases =>
                   Started(j + 1) \/ (pc = "loop" /\ i = j + 1))
            /\ (j + 1 = NumCases => pc \in {"loop", "done"})
            /\ \A m \in Cases :
                  (m > j /\ Terminated /\ ~Started(m)) =>
                      \E c \in Cases : j < c /\ c < m /\ CheckRaised(c)

\* C5: in the Trotterization exercise, every case whose run succeeded and
\* whose check reached the numeric comparison had the policy assertions
\* evaluated, whatever the comparison gave, and a forbidden operation in its
\* trace gives the Wrong Answer line.
C5_PolicyAlwaysCheckedAndReported ==
    exercise = "trotter" =>
        \A j \in Cases :
            (/\ runResult[j].st = "returned"
             /\ CaseEnded(j)
             /\ checkResult[j].exc # "JSONDecodeError") =>
                /\ checkResult[j].policy
                /\ has_forbidden(runResult[j].ops) => WrongAnswerPrinted(j)

\* C6: when the produced and the expected value have different shapes, check
\* does not pass.
C6_ShapeMismatchFails ==
    (/\ pc = "check_exit"
     /\ json_valid(solution_output)
     /\ json_valid(expected_output)
     /\ json_loads(solution_output).shape # json_loads(expected_output).shape)
        => check_result.exc # "none"

\* C7: a decode error in case j (input, expected_output or produced output)
\* is surfaced as an outcome of that case and does not end the script there.
C7_DecodeErrorAbortsOnlyThatCase ==
    \A j \in Cases :
        (DecodeFault(j) /\ CaseEnded(j)) =>
            /\ OutcomeLines(j) # {}
            /\ ~(pc = "crashed" /\ i = j)

\* C8 as stated: check(output, output) passes for every string run returns.
C8_SelfComparePasses ==
    (pc = "check_exit" /\ expected_output = solution_output)
        => check_result.exc = "none"

\* C8, amended: check(output, output) passes (returns, and returns a falsy
\* value) for every string run returns whose elements are all finite
\* numbers, under each script's tolerance.
C8_SelfComparePassesWhenFinite ==
    (/\ pc = "check_exit"
     /\ expected_output = solution_output
     /\ AllNum(solution_output))
        => check_result.exc = "none" /\ ~truthy(check_result.ret)

\* C8, witness: a finite output with a zero element was compared with
\* itself under the absolute tolerance of the gradient exercise.
C8_Witness ==
    /\ pc = "check_exit"
    /\ exercise = "pshift"
    /\ expected_output = solution_output
    /\ AllNum(solution_output)
    /\ \E n \in DOMAIN solution_output.toks : solution_output.toks[n].v = 0
    /\ check_result.exc = "none"

\* C9: check never returns a truthy value and the Wrong Answer line is never
\* printed.
C9_WrongAnswerNeverPrinted ==
    /\ \A n \in DOMAIN stdout : stdout[n].kind # "WrongAnswer"
    /\ ~truthy(check_result.ret)
    /\ \A j \in DOMAIN checkResult : ~truthy(checkResult[j].ret)

\* C9, witness: check found a numeric mismatch, and the script ended with no
\* outcome line for that case.
C9_Witness ==
    \E j \in Cases :
        /\ checkResult[j].exc = "AssertionError"
        /\ checkResult[j].msg = "numeric"
        /\ pc = "crashed"
        /\ OutcomeLines(j) = {}

\* C10: trotterize with depth >= 1 records exactly 2 * depth operations,
\* IsingXX and IsingZZ alternating on wires [0, 1] and starting with
\* IsingXX, so no forbidden name occurs and no policy assertion fails; with
\* depth = 0 the call raises ZeroDivisionError with nothing recorded.
C10_TrotterizeTrace ==
    exercise = "trotter" =>
        /\ \A n \in DOMAIN queue :
              queue[n] = Op(IF n % 2 = 1 THEN "IsingXX" ELSE "IsingZZ")
        /\ \A j \in Cases :
              LET r == runResult[j]
                  d == case(j).input.depth
              IN  /\ r.st = "returned" =>
                        /\ d >= 1
                        /\ Len(r.ops) = 2 * d
                        /\ \A n \in DOMAIN r.ops :
                              r.ops[n] = Op(IF n % 2 = 1 THEN "IsingXX"
                                            ELSE "IsingZZ")
                        /\ ~has_forbidden(r.ops)
                        /\ (pc = "check" /\ i = j => qtape = r.ops)
                  /\ checkResult[j].msg # "policy"
                  /\ (case(j).input.kind = "valid" /\ d = 0
                      /\ r.st # "pending") =>
                        /\ r.exc = "ZeroDivisionError"
                        /\ (pc = "loop" /\ i = j + 1 => queue = <<>>)

\* C10, witness: a call with depth 0 raised, and a call with the largest
\* depth returned and passed the policy assertions.
C10_Witness ==
    /\ exercise = "trotter"
    /\ \E j \in Cases : \E m \in Cases :
          /\ runResult[j].exc = "ZeroDivisionError"
          /\ runResult[m].st = "returned"
          /\ case(m).input.depth = MaxDepth
          /\ Len(runResult[m].ops) = 2 * MaxDepth
          /\ checkResult[m].policy
          /\ checkResult[m].exc = "none"

====
